---- MODULE Spec2Model ----
(***************************************************************************)
(* A model of sudoku_solver.cpp: the cell and board data, the propagation  *)
(* of given values (assign_possibilities), mark, the lone-possibility      *)
(* scanner (scan) and the recursive search of solve (solve_r), as a state  *)
(* machine whose steps are the marks, the group scans and the calls and    *)
(* returns of solve_r.                                                     *)
(***************************************************************************)
EXTENDS Integers, Sequences, FiniteSets, TLC

\* ------------------------------------------------------------------------
\* Program constants
\* ------------------------------------------------------------------------

board_nrows == 9
board_ncols == 9

\* Row and column indices, 0-based as in the source.
Rows == 0 .. (board_nrows - 1)
Cols == 0 .. (board_ncols - 1)
Digits == 1 .. 9

\* The top-left coordinate of each subgrid; subgrid i is subgrid_locs[i + 1].
subgrid_locs ==
    << <<0, 0>>, <<0, 3>>, <<0, 6>>,
       <<3, 0>>, <<3, 3>>, <<3, 6>>,
       <<6, 0>>, <<6, 3>>, <<6, 6>> >>

\* ------------------------------------------------------------------------
\* Bounds of the model
\* ------------------------------------------------------------------------

\* The inputs are a valid grid in which the cells holding a digit up to
\* MaxBlankDigits (or fewer digits) and the top-left square of side
\* MaxBlankSide (or a smaller one) are unknown, and in which one cell of the
\* top row, in a column up to MaxClueCol, may be overwritten by a clue in
\* 1 .. MaxClueValue.
MaxBlankDigits == 3
MaxBlankSide == 1
MaxClueCol == 1
MaxClueValue == 2
\* solve is run at most MaxRuns times in a row (its answer given back to it).
MaxRuns == 2
\* A search that has already nested deeper than the number of unknown cells of
\* the input is followed for MaxOverrun more calls and then cut off.
MaxOverrun == 1

\* ------------------------------------------------------------------------
\* Cell
\* ------------------------------------------------------------------------

\* std::vector<int>::erase(std::find(...)): the first occurrence of n is removed.
RemoveFirst(seq, n) ==
    IF \E i \in 1 .. Len(seq) : seq[i] = n
    THEN LET found == CHOOSE i \in 1 .. Len(seq) :
                          seq[i] = n /\ \A j \in 1 .. (i - 1) : seq[j] # n
         IN  SubSeq(seq, 1, found - 1) \o SubSeq(seq, found + 1, Len(seq))
    ELSE seq

\* A default-constructed Cell's possible list.
AllPossible == <<1, 2, 3, 4, 5, 6, 7, 8, 9>>

\* Cell{true, v}: a given cell; Cell{false}: an unknown one.
GivenCell(v) == [given |-> TRUE, value |-> v, possible |-> AllPossible]
UnknownCell == [given |-> FALSE, value |-> 0, possible |-> AllPossible]

set_not_possible(cell, n) ==
    [cell EXCEPT !.possible = RemoveFirst(cell.possible, n)]

\* A default-constructed Board (an empty vector).
EmptyBoard == << >>

\* load_file's result for a text whose character at (row, col) is the digit
\* grid[row][col], or a period where grid[row][col] = 0.
load_file(grid) ==
    [row \in Rows |-> [col \in Cols |->
        IF grid[row][col] \in Digits THEN GivenCell(grid[row][col])
                                     ELSE UnknownCell]]

\* ------------------------------------------------------------------------
\* Groupings (sequences of coordinates, in the order the code visits them)
\* ------------------------------------------------------------------------

get_row(row) == [i \in 1 .. board_ncols |-> <<row, i - 1>>]

get_col(col) == [i \in 1 .. board_nrows |-> <<i - 1, col>>]

get_subgrid(subgrid) ==
    [i \in 1 .. 9 |->
        << subgrid_locs[subgrid + 1][1] + ((i - 1) \div 3),
           subgrid_locs[subgrid + 1][2] + ((i - 1) % 3) >>]

\* The grouping of the given kind at index i, as the loops over rows, columns
\* and subgrids fetch it.
GroupCells(kind, i) ==
    CASE kind = "rows" -> get_row(i)
      [] kind = "cols" -> get_col(i)
      [] kind = "subgrids" -> get_subgrid(i)

\* find_subgrid with the bounds of the first band and stack off by one
\* (<= 3 for < 3).
find_subgrid_off_by_one(coord) ==
    LET row_offset == IF coord[1] <= 3 THEN 0
                      ELSE IF coord[1] > 3 /\ coord[1] < 6 THEN 1 ELSE 2
        col_offset == IF coord[2] <= 3 THEN 0
                      ELSE IF coord[2] > 3 /\ coord[2] < 6 THEN 1 ELSE 2
    IN  (row_offset * 3) + col_offset

find_subgrid(coord) ==
    LET row_offset == IF coord[1] < 3 THEN 0
                      ELSE IF coord[1] >= 3 /\ coord[1] < 6 THEN 1 ELSE 2
        col_offset == IF coord[2] < 3 THEN 0
                      ELSE IF coord[2] >= 3 /\ coord[2] < 6 THEN 1 ELSE 2
    IN  (row_offset * 3) + col_offset

At(board, coord) == board[coord[1]][coord[2]]

Range(seq) == {seq[i] : i \in 1 .. Len(seq)}

\* get_given_from_vec with its loop starting at the second cell.
get_given_skipping_first(board, cells) ==
    LET given == SelectSeq(Tail(cells), LAMBDA coord : At(board, coord).given)
    IN  [i \in 1 .. Len(given) |-> At(board, given[i]).value]

\* The values of the given cells of a grouping, in order.
get_given_from_vec(board, cells) ==
    LET given == SelectSeq(cells, LAMBDA coord : At(board, coord).given)
    IN  [i \in 1 .. Len(given) |-> At(board, given[i]).value]

\* ------------------------------------------------------------------------
\* is_solved
\* ------------------------------------------------------------------------

\* sort, unique, erase, size: the number of distinct given values.
DistinctGiven(board, cells) ==
    Cardinality(Range(get_given_from_vec(board, cells)))

is_solved(board) ==
    /\ \A row \in Rows : DistinctGiven(board, get_row(row)) = 9
    /\ \A col \in Cols : DistinctGiven(board, get_col(col)) = 9
    /\ \A subgrid \in 0 .. 8 : DistinctGiven(board, get_subgrid(subgrid)) = 9

\* ------------------------------------------------------------------------
\* assign_possibilities
\* ------------------------------------------------------------------------

RECURSIVE RemoveAll(_, _)
\* for(int &g : given_values) c->set_not_possible(g);
RemoveAll(cell, given_values) ==
    IF given_values = << >> THEN cell
    ELSE RemoveAll(set_not_possible(cell, Head(given_values)), Tail(given_values))

\* One iteration of the outer loop of assign_possibilities_for_*: every cell of
\* the grouping that is not given loses the grouping's given values.
AssignGroup(board, cells) ==
    LET given_values == get_given_from_vec(board, cells)
        in_group == Range(cells)
    IN  [row \in Rows |-> [col \in Cols |->
            IF <<row, col>> \in in_group /\ ~board[row][col].given
            THEN RemoveAll(board[row][col], given_values)
            ELSE board[row][col]]]

RECURSIVE AssignFrom(_, _, _)
\* The loop over groupings i, i + 1, .., 8 of one kind.
AssignFrom(board, kind, i) ==
    IF i > 8 THEN board
    ELSE AssignFrom(AssignGroup(board, GroupCells(kind, i)), kind, i + 1)

assign_possibilities_for_rows(board) == AssignFrom(board, "rows", 0)

assign_possibilities_for_cols(board) == AssignFrom(board, "cols", 0)

assign_possibilities_for_subgrids(board) == AssignFrom(board, "subgrids", 0)

assign_possibilities(board) ==
    assign_possibilities_for_subgrids(
        assign_possibilities_for_rows(
            assign_possibilities_for_cols(board)))

\* ------------------------------------------------------------------------
\* mark
\* ------------------------------------------------------------------------

\* for(Cell *c : to_set) if(!c->given) c->set_not_possible(n);
Eliminate(board, to_set, n) ==
    LET in_group == Range(to_set)
    IN  [row \in Rows |-> [col \in Cols |->
            IF <<row, col>> \in in_group /\ ~board[row][col].given
            THEN set_not_possible(board[row][col], n)
            ELSE board[row][col]]]

\* mark without the pass over the column of the cell.
mark_without_col(board, coord, n) ==
    LET marked == [board EXCEPT ![coord[1]][coord[2]].given = TRUE,
                                ![coord[1]][coord[2]].value = n]
    IN  Eliminate(
            Eliminate(marked, get_row(coord[1]), n),
            get_subgrid(find_subgrid(coord)), n)

mark(board, coord, n) ==
    LET marked == [board EXCEPT ![coord[1]][coord[2]].given = TRUE,
                                ![coord[1]][coord[2]].value = n]
    IN  Eliminate(
            Eliminate(
                Eliminate(marked, get_row(coord[1]), n),
                get_col(coord[2]), n),
            get_subgrid(find_subgrid(coord)), n)

\* ------------------------------------------------------------------------
\* The lone-possibility scanner
\* ------------------------------------------------------------------------

\* The possibility map of one grouping (add_to_map over its cells, in order):
\* each digit that some cell of the grouping that is not given lists as
\* possible, mapped to the coordinates of those cells.
build_p_map(board, cells) ==
    LET Lists(coord, g) == /\ ~At(board, coord).given
                           /\ g \in Range(At(board, coord).possible)
        keys == {g \in Digits : \E i \in 1 .. Len(cells) : Lists(cells[i], g)}
    IN  [g \in keys |-> SelectSeq(cells, LAMBDA coord : Lists(coord, g))]

\* The keys of the map, from key `from` on, whose list has exactly one entry.
LoneKeys(map, from) ==
    {g \in DOMAIN map : g >= from /\ Len(map[g]) = 1}

Min(S) == CHOOSE x \in S : \A y \in S : x <= y

\* ------------------------------------------------------------------------
\* find_fewest_possibility_cell_index
\* ------------------------------------------------------------------------

RECURSIVE FewestFrom(_, _, _, _)
\* The double loop from row-major position pos on, with the running index and
\* least_so_far.
FewestFrom(board, pos, index, least_so_far) ==
    IF pos >= board_nrows * board_ncols THEN index
    ELSE LET row == pos \div board_ncols
             col == pos % board_ncols
         IN  IF /\ ~board[row][col].given
                /\ Len(board[row][col].possible) < least_so_far
             THEN FewestFrom(board, pos + 1, <<row, col>>,
                             Len(board[row][col].possible))
             ELSE FewestFrom(board, pos + 1, index, least_so_far)

\* std::pair<int, int> index; is value-initialised to {0, 0}.
find_fewest_possibility_cell_index(board) ==
    FewestFrom(board, 0, <<0, 0>>, 10)

\* ------------------------------------------------------------------------
\* Inputs
\* ------------------------------------------------------------------------

\* A valid, completely filled grid; row r, column c is SolutionGrid[r + 1][c + 1].
SolutionGrid ==
    << <<1, 7, 8, 9, 2, 4, 3, 5, 6>>,
       <<9, 2, 6, 5, 3, 1, 7, 8, 4>>,
       <<5, 3, 4, 7, 8, 6, 1, 9, 2>>,
       <<4, 1, 3, 2, 9, 5, 8, 6, 7>>,
       <<8, 6, 9, 4, 1, 7, 2, 3, 5>>,
       <<2, 5, 7, 3, 6, 8, 4, 1, 9>>,
       <<3, 9, 5, 1, 7, 2, 6, 4, 8>>,
       <<6, 4, 2, 8, 5, 3, 9, 7, 1>>,
       <<7, 8, 1, 6, 4, 9, 5, 2, 3>> >>

\* The grid of an input file: SolutionGrid with the digits up to blank_digits and
\* the top-left square of side blank_side replaced by periods (0), and, unless
\* clue = 0, the digit clue written at row 0, column clue_col.
InputGrid(blank_digits, blank_side, clue_col, clue) ==
    [row \in Rows |-> [col \in Cols |->
        IF clue # 0 /\ row = 0 /\ col = clue_col THEN clue
        ELSE IF \/ SolutionGrid[row + 1][col + 1] <= blank_digits
                \/ (row < blank_side /\ col < blank_side)
             THEN 0
             ELSE SolutionGrid[row + 1][col + 1]]]

InputGrids ==
    {InputGrid(k, a, j, v) :
        k \in 0 .. MaxBlankDigits, a \in 0 .. MaxBlankSide,
        j \in 0 .. MaxClueCol, v \in 0 .. MaxClueValue}

\* ------------------------------------------------------------------------
\* State
\* ------------------------------------------------------------------------

VARIABLES
    input,              \* main's board: the argument solve is called with
    board,              \* solve's parameter board (its own copy)
    solved,             \* solve's local flag
    solved_board,       \* solve's local result, returned at the end
    stack,              \* the active calls of solve_r, innermost last
    pc,                 \* "solve", "scan", "call", "enter", "loop" or "done"
    scan_kind,          \* which scan_*_for_lone_possibility is running
    scan_index,         \* its loop variable (row, col or subgrid)
    p_map,              \* its possibility map for the current grouping
    p_it,               \* the least key the iterator of p_map has not passed
    at_least_one_mark,  \* its local flag
    runs                \* how many times solve has been called

vars == <<input, board, solved, solved_board, stack, pc, scan_kind, scan_index,
          p_map, p_it, at_least_one_mark, runs>>

scan_vars == <<scan_kind, scan_index, p_map, p_it, at_least_one_mark>>

Top == stack[Len(stack)]

\* The board scan was called on: solve's board, or the innermost call's
\* temp_board.
CurBoard == IF stack = << >> THEN board ELSE Top.temp_board

Unknowns(b) == Cardinality({coord \in Rows \X Cols : ~At(b, coord).given})

\* A call of solve_r on b, before its first statement.
Frame(b) ==
    [b |-> b, target |-> <<0, 0>>, target_possibilities |-> << >>,
     it |-> 1, temp_board |-> EmptyBoard]

Init ==
    /\ \E grid \in InputGrids : input = load_file(grid)
    /\ board = input
    /\ solved = FALSE
    /\ solved_board = EmptyBoard
    /\ stack = << >>
    /\ pc = "solve"
    /\ scan_kind = "rows"
    /\ scan_index = 0
    /\ p_map = << >>
    /\ p_it = 1
    /\ at_least_one_mark = FALSE
    /\ runs = 1

\* ------------------------------------------------------------------------
\* scan
\* ------------------------------------------------------------------------

\* scan is entered on board b: scan_rows_for_lone_possibility starts on row 0.
ScanEnter(b) ==
    /\ scan_kind' = "rows"
    /\ scan_index' = 0
    /\ p_map' = build_p_map(b, GroupCells("rows", 0))
    /\ p_it' = 1
    /\ at_least_one_mark' = FALSE

\* The iterator reaches an entry of p_map with exactly one position: mark.
ScanMark ==
    /\ pc = "scan"
    /\ LoneKeys(p_map, p_it) # {}
    /\ LET g == Min(LoneKeys(p_map, p_it))
           marked == mark(CurBoard, p_map[g][1], g)
       IN  /\ IF stack = << >>
              THEN board' = marked /\ UNCHANGED stack
              ELSE /\ stack' = [stack EXCEPT ![Len(stack)].temp_board = marked]
                   /\ UNCHANGED board
           /\ p_it' = g + 1
    /\ at_least_one_mark' = TRUE
    /\ UNCHANGED <<input, solved, solved_board, pc, scan_kind, scan_index,
                   p_map, runs>>

\* No entry with one position is left in p_map: the next grouping's map is built.
ScanNextGroup ==
    /\ pc = "scan"
    /\ LoneKeys(p_map, p_it) = {}
    /\ scan_index < 8
    /\ scan_index' = scan_index + 1
    /\ p_map' = build_p_map(CurBoard, GroupCells(scan_kind, scan_index + 1))
    /\ p_it' = 1
    /\ UNCHANGED <<input, board, solved, solved_board, stack, pc, scan_kind,
                   at_least_one_mark, runs>>

\* A scan_*_for_lone_possibility returns true: the while loop of scan starts
\* over with the rows.
ScanRepeat ==
    /\ pc = "scan"
    /\ LoneKeys(p_map, p_it) = {}
    /\ scan_index = 8
    /\ at_least_one_mark
    /\ ScanEnter(CurBoard)
    /\ UNCHANGED <<input, board, solved, solved_board, stack, pc, runs>>

\* scan with && for ||: once scan_rows (scan_cols) returns false, scan returns.
ScanNextKindReturns ==
    /\ pc = "scan"
    /\ LoneKeys(p_map, p_it) = {}
    /\ scan_index = 8
    /\ ~at_least_one_mark
    /\ scan_kind # "subgrids"
    /\ pc' = "call"
    /\ scan_kind' = "rows"
    /\ scan_index' = 0
    /\ p_map' = << >>
    /\ p_it' = 1
    /\ UNCHANGED <<input, board, solved, solved_board, stack,
                   at_least_one_mark, runs>>

\* scan_rows (scan_cols) returns false: the next operand of || runs.
ScanNextKind ==
    /\ pc = "scan"
    /\ LoneKeys(p_map, p_it) = {}
    /\ scan_index = 8
    /\ ~at_least_one_mark
    /\ scan_kind # "subgrids"
    /\ LET next == IF scan_kind = "rows" THEN "cols" ELSE "subgrids"
       IN  /\ scan_kind' = next
           /\ p_map' = build_p_map(CurBoard, GroupCells(next, 0))
    /\ scan_index' = 0
    /\ p_it' = 1
    /\ at_least_one_mark' = FALSE
    /\ UNCHANGED <<input, board, solved, solved_board, stack, pc, runs>>

\* All three scans returned false: scan returns, and solve_r is called next
\* (line 557 after line 533, line 551 after line 550).
ScanReturn ==
    /\ pc = "scan"
    /\ LoneKeys(p_map, p_it) = {}
    /\ scan_index = 8
    /\ ~at_least_one_mark
    /\ scan_kind = "subgrids"
    /\ pc' = "call"
    /\ scan_kind' = "rows"
    /\ scan_index' = 0
    /\ p_map' = << >>
    /\ p_it' = 1
    /\ UNCHANGED <<input, board, solved, solved_board, stack,
                   at_least_one_mark, runs>>

\* ------------------------------------------------------------------------
\* solve and solve_r
\* ------------------------------------------------------------------------

\* solve, lines 532-533: assign_possibilities(board), then scan(board) begins.
SolveBegin ==
    /\ pc = "solve"
    /\ board' = assign_possibilities(board)
    /\ ScanEnter(board')
    /\ pc' = "scan"
    /\ UNCHANGED <<input, solved, solved_board, stack, runs>>

\* solve_r(board) or solve_r(temp_board) is called.
SolveRCall ==
    /\ pc = "call"
    /\ Len(stack) <= Unknowns(input) + MaxOverrun
    /\ stack' = Append(stack, Frame(CurBoard))
    /\ pc' = "enter"
    /\ UNCHANGED <<input, board, solved, solved_board, scan_vars, runs>>

\* The loop of solve_r with a break after the recursive call: the caller tries
\* no further candidate.
ReturnAndBreak ==
    IF Len(stack) = 1
    THEN /\ stack' = << >>
         /\ pc' = "done"
    ELSE /\ stack' = [SubSeq(stack, 1, Len(stack) - 1)
                         EXCEPT ![Len(stack) - 1].it =
                                    Len(stack[Len(stack) - 1].target_possibilities) + 1,
                                ![Len(stack) - 1].temp_board = EmptyBoard]
         /\ pc' = "loop"

\* The innermost call returns: to the loop of its caller (++it), or, for the
\* call of line 557, to solve, which returns solved_board.
Return ==
    IF Len(stack) = 1
    THEN /\ stack' = << >>
         /\ pc' = "done"
    ELSE /\ stack' = [SubSeq(stack, 1, Len(stack) - 1)
                         EXCEPT ![Len(stack) - 1].it = @ + 1,
                                ![Len(stack) - 1].temp_board = EmptyBoard]
         /\ pc' = "loop"

\* solve_r, lines 536-541.
SolveRSolved ==
    /\ pc = "enter"
    /\ is_solved(Top.b)
    /\ solved' = TRUE
    /\ solved_board' = Top.b
    /\ Return
    /\ UNCHANGED <<input, board, scan_vars, runs>>

\* solve_r, lines 542-544.
SolveRTarget ==
    /\ pc = "enter"
    /\ ~is_solved(Top.b)
    /\ LET target == find_fewest_possibility_cell_index(Top.b)
       IN  stack' = [stack EXCEPT
                        ![Len(stack)].target = target,
                        ![Len(stack)].target_possibilities =
                            At(Top.b, target).possible,
                        ![Len(stack)].it = 1]
    /\ pc' = "loop"
    /\ UNCHANGED <<input, board, solved, solved_board, scan_vars, runs>>

\* solve_r, lines 546-550: the loop condition holds; temp_board is a copy of b
\* with the target marked, and scan(temp_board) begins.
SolveRGuess ==
    /\ pc = "loop"
    /\ Top.it <= Len(Top.target_possibilities)
    /\ ~solved
    /\ LET temp_board == mark(Top.b, Top.target, Top.target_possibilities[Top.it])
       IN  /\ stack' = [stack EXCEPT ![Len(stack)].temp_board = temp_board]
           /\ ScanEnter(temp_board)
    /\ pc' = "scan"
    /\ UNCHANGED <<input, board, solved, solved_board, runs>>

\* solve_r, line 546: the loop condition fails, and solve_r returns.
SolveRReturn ==
    /\ pc = "loop"
    /\ ~(Top.it <= Len(Top.target_possibilities) /\ ~solved)
    /\ Return
    /\ UNCHANGED <<input, board, solved, solved_board, scan_vars, runs>>

\* solve is called again, on the board it returned (solve(solve(b))).
SolveAgain ==
    /\ pc = "done"
    /\ solved
    /\ runs < MaxRuns
    /\ input' = solved_board
    /\ board' = solved_board
    /\ solved' = FALSE
    /\ solved_board' = EmptyBoard
    /\ pc' = "solve"
    /\ runs' = runs + 1
    /\ UNCHANGED <<stack, scan_vars>>

Next ==
    \/ SolveBegin
    \/ ScanMark
    \/ ScanNextGroup
    \/ ScanRepeat
    \/ ScanNextKind
    \/ ScanReturn
    \/ SolveRCall
    \/ SolveRSolved
    \/ SolveRTarget
    \/ SolveRGuess
    \/ SolveRReturn
    \/ SolveAgain

Spec == Init /\ [][Next]_vars

\* ------------------------------------------------------------------------
\* Vocabulary of the properties
\* ------------------------------------------------------------------------

Coords == Rows \X Cols

\* The 27 groupings as sets of coordinates: 9 rows, 9 columns and 9 blocks,
\* the block of (row, col) being (row / 3) * 3 + (col / 3).
RowSet(row) == {coord \in Coords : coord[1] = row}
ColSet(col) == {coord \in Coords : coord[2] = col}
BlockSet(blk) ==
    {coord \in Coords : ((coord[1] \div 3) * 3) + (coord[2] \div 3) = blk}
Groupings ==
    {RowSet(row) : row \in Rows} \cup {ColSet(col) : col \in Cols}
        \cup {BlockSet(blk) : blk \in 0 .. 8}

\* The cells sharing a row, a column or a block with coord.
Sharing(coord) == UNION {grp \in Groupings : coord \in grp}

AllFixed(b) == \A coord \in Coords : At(b, coord).given

\* Two fixed cells of one grouping hold the same digit.
DirectContradiction(b) ==
    \E grp \in Groupings :
        LET fixed == {coord \in grp : At(b, coord).given}
        IN  Cardinality({At(b, coord).value : coord \in fixed})
                < Cardinality(fixed)

\* A solved board: every cell fixed, every grouping a permutation of 1..9.
SolvedBoard(b) ==
    /\ b # EmptyBoard
    /\ AllFixed(b)
    /\ \A grp \in Groupings : {At(b, coord).value : coord \in grp} = Digits

\* b and c have the same fixed flags and values in every cell.
SameCells(b, c) ==
    /\ b # EmptyBoard
    /\ c # EmptyBoard
    /\ \A coord \in Coords :
           /\ At(b, coord).given = At(c, coord).given
           /\ At(b, coord).value = At(c, coord).value

\* Every given cell of b is fixed in c with the same value.
CluesKept(b, c) ==
    /\ c # EmptyBoard
    /\ \A coord \in Coords :
           At(b, coord).given =>
               At(c, coord).given /\ At(c, coord).value = At(b, coord).value

\* b has a solution that is known: SolutionGrid extends it, or b is itself a
\* solved board.
KnownSolvable(b) ==
    \/ \A coord \in Coords :
           At(b, coord).given =>
               At(b, coord).value = SolutionGrid[coord[1] + 1][coord[2] + 1]
    \/ SolvedBoard(b)

\* The calls of solve_r that have made a guess and not yet returned.
GuessDepth ==
    IF stack = << >> THEN 0
    ELSE IF pc \in {"scan", "call"} THEN Len(stack) ELSE Len(stack) - 1

\* The scanner is about to mark / solve_r is about to guess.
ScanMarkNext == pc = "scan" /\ LoneKeys(p_map, p_it) # {}
GuessNext ==
    /\ pc = "loop"
    /\ Top.it <= Len(Top.target_possibilities)
    /\ ~solved

\* No grouping of b has a digit that exactly one of its cells that are not
\* fixed lists as a candidate.
NoLonePossibility(b) ==
    \A grp \in Groupings : \A d \in Digits :
        Cardinality({coord \in grp :
            ~At(b, coord).given /\ d \in Range(At(b, coord).possible)}) # 1

\* ------------------------------------------------------------------------
\* Properties
\* ------------------------------------------------------------------------

\* C1: when solve returns on an input that has a solution, the solved flag is
\* set, the returned board is a solved board that is_solved accepts, and every
\* given clue of the input still holds its value in it.
SolveSound ==
    (pc = "done" /\ KnownSolvable(input)) =>
        /\ solved
        /\ SolvedBoard(solved_board)
        /\ is_solved(solved_board)
        /\ CluesKept(input, solved_board)

\* C1 witness: solve has returned a solved board for a solvable input with 27
\* unknown cells, which the scanner alone does not settle.
SolveSoundWitness ==
    /\ pc = "done"
    /\ runs = 1
    /\ KnownSolvable(input)
    /\ Unknowns(input) >= 27
    /\ solved
    /\ SolvedBoard(solved_board)

\* C2: when solve returns on an input whose given clues contradict each other
\* directly, its solved flag is false and the board it returns is not one that
\* is_solved accepts.
ContradictionReported ==
    (pc = "done" /\ DirectContradiction(input)) =>
        /\ ~solved
        /\ (solved_board = EmptyBoard \/ ~is_solved(solved_board))

\* C3: the number of nested calls of solve_r that have made a guess never
\* exceeds the number of unknown cells of the input.
SearchDepthBounded == GuessDepth <= Unknowns(input)

\* C4: on an input that is a solved board, solve never marks, never reaches the
\* branching loop of solve_r, calls solve_r once only, leaves its board as the
\* input, and returns a board with the input's fixed flags and values.
SolvedInputUnchanged ==
    SolvedBoard(input) =>
        /\ ~ScanMarkNext
        /\ pc # "loop"
        /\ Len(stack) <= 1
        /\ SameCells(board, input)
        /\ (stack # << >> => SameCells(Top.b, input))
        /\ (pc = "done" => solved /\ SameCells(solved_board, input))

\* C4 witness: solve has returned on the board an earlier run of solve returned.
SolvedInputWitness ==
    /\ pc = "done"
    /\ runs = 2
    /\ SolvedBoard(input)
    /\ solved
    /\ SameCells(solved_board, input)

\* C5: when solve returns without having found a solution for an input whose
\* clues contradict each other (an input with no answer), the board it returns
\* is the same as the input.
NoAnswerSameAsInput ==
    (pc = "done" /\ ~solved /\ DirectContradiction(input)) =>
        SameCells(solved_board, input)

\* C6: a call of solve_r on a board with every cell fixed that is_solved
\* rejects makes no guess: it is the innermost call, and its loop has no
\* candidate to try.
AllFixedUnsolvedIsDeadEnd ==
    \A i \in 1 .. Len(stack) :
        (AllFixed(stack[i].b) /\ ~is_solved(stack[i].b)) =>
            /\ i = Len(stack)
            /\ pc \in {"enter", "loop"}
            /\ (pc = "loop" => stack[i].target_possibilities = << >>)

\* A measure of the work scan has left: the unknown cells of its board, then
\* whether the running scan_* has marked (it will then be run again from the
\* rows), then what is left of the rows, columns and subgrids pass.
ScanMeasure ==
    (Unknowns(CurBoard) * 1000)
        + (IF at_least_one_mark THEN 500 ELSE 0)
        + ((CASE scan_kind = "rows" -> 2 [] scan_kind = "cols" -> 1
              [] scan_kind = "subgrids" -> 0) * 100)
        + ((8 - scan_index) * 10)
        + (10 - p_it)

\* C7: scan terminates (every step of scan that does not return decreases
\* ScanMeasure, a natural number), and when it returns no grouping of the board
\* has a digit that is a candidate of exactly one cell that is not fixed.
ScanReachesFixedPoint ==
    /\ [][(pc = "scan" /\ pc' = "scan") =>
              (ScanMeasure' < ScanMeasure /\ ScanMeasure' >= 0)]_vars
    /\ [](pc = "call" => NoLonePossibility(CurBoard))

\* C7 witness: scan has returned inside a search branch, on a board that still
\* has unknown cells.
ScanFixedPointWitness ==
    /\ pc = "call"
    /\ stack # << >>
    /\ Unknowns(CurBoard) > 0
    /\ NoLonePossibility(CurBoard)

\* What mark(before, coord, n) must have made of the board.
MarkPost(before, coord, n, after) ==
    /\ At(after, coord).given
    /\ At(after, coord).value = n
    /\ \A c \in Sharing(coord) :
           ~At(after, c).given => n \notin Range(At(after, c).possible)
    /\ \A c \in Coords \ {coord} :
           /\ At(after, c).given = At(before, c).given
           /\ At(after, c).value = At(before, c).value
    /\ \A c \in Coords \ Sharing(coord) :
           At(after, c).possible = At(before, c).possible
    /\ \A c \in Coords :
           SelectSeq(At(after, c).possible, LAMBDA d : d # n)
               = SelectSeq(At(before, c).possible, LAMBDA d : d # n)

\* C8: every mark, by the scanner or by a guess of the search, leaves the cell
\* fixed with the digit, the digit a candidate of no cell that is not fixed in
\* the cell's row, column and block, and everything else as it was.
MarkConsistent ==
    [][/\ ScanMarkNext =>
            LET g == Min(LoneKeys(p_map, p_it))
            IN  MarkPost(CurBoard, p_map[g][1], g, CurBoard')
       /\ GuessNext =>
            MarkPost(Top.b, Top.target, Top.target_possibilities[Top.it],
                     CurBoard')]_vars

\* C8 witness: the scanner has just marked a cell inside a search branch.
MarkWitness ==
    /\ pc = "scan"
    /\ stack # << >>
    /\ at_least_one_mark
    /\ p_it > 1

\* C9: on inputs without contradicting clues, the scanner marks only cells
\* that are not fixed, and so does each guess of the search.
MarkOnlyUnfixed ==
    ~DirectContradiction(input) =>
        /\ ScanMarkNext =>
               ~At(CurBoard, p_map[Min(LoneKeys(p_map, p_it))][1]).given
        /\ GuessNext => ~At(Top.b, Top.target).given

\* The boards of the state: solve's, and the innermost call's b and temp_board.
NoRepeatedDigit(b) == b = EmptyBoard \/ ~DirectContradiction(b)
FixedMeansSolved(b) == (b # EmptyBoard /\ AllFixed(b)) => is_solved(b)

\* C10: if no grouping of the input repeats a digit among its clues, then no
\* board reached during solve has two fixed cells of one grouping with the same
\* digit, and every reached board with all cells fixed passes is_solved.
ConsistentStaysConsistent ==
    ~DirectContradiction(input) =>
        /\ NoRepeatedDigit(board) /\ FixedMeansSolved(board)
        /\ NoRepeatedDigit(solved_board)
        /\ stack # << >> =>
               /\ NoRepeatedDigit(Top.b) /\ FixedMeansSolved(Top.b)
               /\ NoRepeatedDigit(Top.temp_board)
               /\ FixedMeansSolved(Top.temp_board)

\* C10 witness: an input without contradicting clues, two guesses deep, the
\* scanner having just marked a cell of the branch's board.
ConsistentWitness ==
    /\ ~DirectContradiction(input)
    /\ Len(stack) >= 2
    /\ pc = "scan"
    /\ at_least_one_mark
    /\ Unknowns(CurBoard) > 0

====
